---- MODULE Spec2Model ----
(***************************************************************************)
(* The semantic analyzer of the Gitz compiler, src/src/analyzer.js, with   *)
(* the IR constructors and the standard library of src/src/core.js.        *)
(*                                                                         *)
(* One run of analyze() is a recursive descent over the syntax tree with   *)
(* the module-level variable `context` as its only ambient state.  The     *)
(* model flattens the descent: every statement handler is one action, a    *)
(* handler that analyses a block pushes a frame and the end of the block   *)
(* pops it.  The program being analysed is the input: each action draws    *)
(* the next statement from a bounded set.                                  *)
(*                                                                         *)
(* Encodings.  A Gitz type is a JavaScript string ("num", "list<num>");    *)
(* it is modelled as the sequence of its tokens (<<"num">>,                *)
(* <<"list","num">>), so that listType, startsWith("list<") and            *)
(* slice(5,-1) are Cons, a test of the head and Tail.  The type of a       *)
(* function entity is an object; read as an expression type it is          *)
(* <<"FunctionType", name>>, equal to itself only (=== on objects).        *)
(* A context chain is the sequence of the contexts from the root to        *)
(* `context`: parent links are positions.  An error message is a record    *)
(* holding the message's fixed text and its interpolated parts.            *)
(*                                                                         *)
(* The optimizer, src/optimizer.js, is the function optimize over IR       *)
(* trees; OptSpec applies it to a tree drawn from a bounded set, and then  *)
(* to its own result.                                                      *)
(***************************************************************************)
EXTENDS Integers, Sequences, FiniteSets, TLC

VARIABLES
    ctx,      \* the context chain: ctx[Len(ctx)] is `context`, ctx[1] the root
    stack,    \* the open blocks: stack[1] is the Program's statement list
    status,   \* "running", "done" (analyze returned) or "error" (it threw)
    err,      \* the error thrown, when status = "error"
    count,    \* statements analysed so far
    last,     \* the handler that ran last
    tree,     \* the IR tree handed to optimize
    out       \* what the successive calls of optimize returned

vars == <<ctx, stack, status, err, count, last, tree, out>>

\* ------------------------------------------------------------------ bounds
MaxStmts == 3     \* statements analysed in one run
MaxDepth == 2     \* blocks open at once, the Program's list not counted
MaxBlock == 2     \* statements written in one block
MaxClauses == 1   \* orWhen clauses of one When statement

\* ------------------------------------------------------------ core.js types
boolType == <<"bool">>
numType == <<"num">>
textType == <<"text">>
voidType == <<"void">>
anyType == <<"any">>
Undefined == <<"undefined">>

listType(baseType) == <<"list">> \o baseType

\* type.startsWith("list<")
startsWithList(type) == Len(type) > 1 /\ Head(type) = "list"

\* type.slice(5, -1) of a string that starts with "list<"
slice5(type) == Tail(type)

isListType(type) == startsWithList(type)

getListElementType(type) == IF isListType(type) THEN slice5(type) ELSE anyType

\* ---------------------------------------------------------- core.js entities
variable(name, mutable, type) ==
    [kind |-> "Variable", name |-> name, mutable |-> mutable, type |-> type]

functionType(paramTypes, returnType) ==
    [kind |-> "FunctionType", paramTypes |-> paramTypes, returnType |-> returnType]

\* core.fun takes four parameters: a fifth argument is dropped, the entity
\* has no returnType field.
fun(name, params, body, type, returnType) ==
    [kind |-> "Function", name |-> name, params |-> params, body |-> body,
     type |-> type]

intrinsicFunction(name, type) ==
    [kind |-> "Function", name |-> name, type |-> type, intrinsic |-> TRUE]

\* A JavaScript string stored as an entity (the type names of the standard
\* library); String.prototype.type is "text".
StringEntity(s) == [kind |-> "String", name |-> s, type |-> textType]

\* A JavaScript array stored as an entity; Array.prototype.type is "list<any>".
ArrayEntity(elements) ==
    [kind |-> "Array", elements |-> elements, type |-> listType(anyType)]

BooleanLiteral(v) == [kind |-> "BooleanLiteral", name |-> "", value |-> v, type |-> boolType]

mapType == <<"MapType">>

standardLibrary ==
    [num |-> StringEntity("num"),
     text |-> StringEntity("text"),
     bool |-> StringEntity("bool"),
     void |-> StringEntity("void"),
     any |-> StringEntity("any"),
     pi |-> variable("pi", FALSE, numType),
     print |-> intrinsicFunction("print", functionType(<<anyType>>, voidType)),
     println |-> intrinsicFunction("println", functionType(<<anyType>>, voidType)),
     sqrt |-> intrinsicFunction("sqrt", functionType(<<numType>>, numType)),
     sin |-> intrinsicFunction("sin", functionType(<<numType>>, numType)),
     cos |-> intrinsicFunction("cos", functionType(<<numType>>, numType)),
     exp |-> intrinsicFunction("exp", functionType(<<numType>>, numType)),
     ln |-> intrinsicFunction("ln", functionType(<<numType>>, numType)),
     hypot |-> intrinsicFunction("hypot", functionType(<<numType, numType>>, numType)),
     bytes |-> intrinsicFunction("bytes", functionType(<<textType>>, listType(numType))),
     codepoints |-> intrinsicFunction("codepoints", functionType(<<textType>>, listType(numType))),
     len |-> intrinsicFunction("len", functionType(<<listType(anyType)>>, numType)),
     keys |-> intrinsicFunction("keys", functionType(<<mapType>>, listType(anyType))),
     values |-> intrinsicFunction("values", functionType(<<mapType>>, listType(anyType)))]

\* The type an entity or IR node shows when it is read as `e.type`.
typeOf(e) == IF e.kind = "Function" THEN <<"FunctionType", e.name>> ELSE e.type

\* ------------------------------------------------------------------ Context
NoFunction == [kind |-> "null"]

Context(locals, inLoop, currentFunction) ==
    [locals |-> locals, inLoop |-> inLoop, currentFunction |-> currentFunction]

\* Context.root
root ==
    Context(standardLibrary @@ ("true" :> BooleanLiteral(TRUE))
                            @@ ("false" :> BooleanLiteral(FALSE)),
            FALSE, NoFunction)

\* Context.newChildContext: parent and empty locals; inLoop and
\* currentFunction are the constructor's defaults unless props gives them.
\* A child context that drops the props it is given
plainChildContext(inLoop) == Context(<<>>, FALSE, NoFunction)

newChildContext(inLoop) == Context(<<>>, inLoop, NoFunction)

has(locals, name) == name \in DOMAIN locals

\* Context.add on a name the context does not hold
set(locals, name, entity) == (name :> entity) @@ locals

\* The key under which Map.set stores `undefined`
UndefinedKey == "<undefined>"

NotFound == [kind |-> "NotFound"]

\* Context.lookup, from chain[i] outward
RECURSIVE lookupFrom(_, _, _)
lookupFrom(chain, i, name) ==
    IF i = 0 THEN NotFound
    ELSE IF has(chain[i].locals, name) THEN chain[i].locals[name]
    ELSE lookupFrom(chain, i - 1, name)

lookup(chain, name) == lookupFrom(chain, Len(chain), name)

\* --------------------------------------------------------------- the errors
AlreadyDeclared(name) == [msg |-> "Identifier already declared", name |-> name]
NotDeclared(name) == [msg |-> "Identifier is not declared", name |-> name]
CannotAssign(from, to) == [msg |-> "Cannot assign", from |-> from, to |-> to]
ExpectedNumber == [msg |-> "Expected a number"]
ExpectedBoolean == [msg |-> "Expected a boolean"]
ExpectedNumberOrString == [msg |-> "Expected number or string"]
SameType == [msg |-> "Operands must have same type"]
TypeExpected == [msg |-> "Type expected"]
NotAFunction(name) == [msg |-> "is not a function", name |-> name]
Arity(expected, got) == [msg |-> "Expected arguments but got", expected |-> expected, got |-> got]
Immutable == [msg |-> "Cannot assign to immutable variable"]
OutsideLoop(statement) == [msg |-> "used outside of a loop", statement |-> statement]
OutsideFunction == [msg |-> "Return used outside of a function"]
TypeError == [msg |-> "TypeError"]
NoError == [msg |-> ""]

Ok(r) == [ok |-> TRUE] @@ r
Fail(e) == [ok |-> FALSE, err |-> e]

\* A failure raised after the handler has replaced `context`
ThrownIn(r, chain) == [ok |-> FALSE, err |-> r.err, chain |-> chain]

\* ------------------------------------------------------------- type syntax
\* A type as written: <<"num">> for a BasicType (a keyword or any
\* identifier), <<"list", ...>> for list<...> or list[...].
\* BasicType_basicType, ListType_listTypeSquare, ListType_listTypeAngle.
RECURSIVE TypeRep(_)
TypeRep(syntax) ==
    IF Len(syntax) = 1 THEN Ok([type |-> syntax])
    ELSE LET base == TypeRep(Tail(syntax)) IN
         IF ~base.ok THEN base
         ELSE IF base.type \notin {numType, textType, boolType}
                 /\ ~startsWithList(base.type)
              THEN Fail(TypeExpected)
              ELSE Ok([type |-> listType(base.type)])

\* -------------------------------------------------------------- expressions
Lit(t) == [k |-> "lit", t |-> t]
Ref(n) == [k |-> "ref", n |-> n]
ListExp(es) == [k |-> "list", es |-> es]
Bin(op, l, r) == [k |-> "bin", op |-> op, es |-> <<l, r>>]
Call(n, es) == [k |-> "call", n |-> n, es |-> es]
Index(n, e) == [k |-> "index", n |-> n, es |-> <<e>>]

LogicalOps == {"or", "and"}
EqualityOps == {"==", "!=", "equal", "notSame"}
RelOps == {"<", ">", "bigger", "smaller", "in"}
AddOps == {"plus", "minus"}
MulOps == {"times", "over", "mod"}

\* The first result that is a failure, 0 when none is
FirstFail(rs) ==
    IF \E i \in 1..Len(rs) : ~rs[i].ok
    THEN CHOOSE i \in 1..Len(rs) : ~rs[i].ok /\ \A j \in 1..(i - 1) : rs[j].ok
    ELSE 0

\* mustAllHaveSameType: every expression has the type of the first
allHaveSameType(rs) == \A i \in 2..Len(rs) : rs[1].type = rs[i].type

\* A mustBeAssignable without the two tests for "any"
sameType(sourceType, toType) == sourceType = toType

\* mustBeAssignable's condition
assignable(sourceType, toType) ==
    sourceType = anyType \/ toType = anyType \/ sourceType = toType

\* PrimaryExp_primaryInt/Float/String/Bool
LiteralRep(t) ==
    Ok([type |-> t,
        kind |-> IF t = numType THEN "NumberLiteral"
                 ELSE IF t = textType THEN "StringLiteral" ELSE "BooleanLiteral",
        n |-> 0])

\* PrimaryExp_primaryId: context.lookup throws when the name is not found
IdRep(chain, name) ==
    LET entity == lookup(chain, name) IN
    IF entity = NotFound THEN Fail(NotDeclared(name))
    ELSE Ok([type |-> typeOf(entity), kind |-> entity.kind, n |-> 0])

\* ListExp_listExp over the representations of its elements (ExpList_expList
\* has already required one type)
ListRep(rs) ==
    IF ~allHaveSameType(rs) THEN Fail(SameType)
    ELSE Ok([type |-> listType(IF Len(rs) > 0 THEN rs[1].type ELSE anyType),
             kind |-> "ListLiteral", n |-> Len(rs)])

\* LogicalOrExp_lor .. MultiplicativeExp_mulExp: one step of a chain, over
\* the representations of the accumulated expression and the right operand
BinaryRep(op, l, r) ==
    LET node(t) == Ok([type |-> t, kind |-> "BinaryExpression", n |-> 0]) IN
    IF op \in LogicalOps THEN
        IF l.type # boolType \/ r.type # boolType THEN Fail(ExpectedBoolean)
        ELSE node(boolType)
    ELSE IF op \in EqualityOps \cup RelOps THEN
        IF l.type # r.type THEN Fail(SameType) ELSE node(boolType)
    ELSE IF op \in AddOps THEN
        IF op = "plus" /\ l.type \notin {numType, textType}
        THEN Fail(ExpectedNumberOrString)
        ELSE IF op # "plus" /\ l.type # numType THEN Fail(ExpectedNumber)
        ELSE IF l.type # r.type THEN Fail(SameType)
        ELSE node(l.type)
    ELSE
        IF l.type # numType \/ r.type # numType THEN Fail(ExpectedNumber)
        ELSE node(l.type)

\* core.functionCall
functionCall(callee, nargs) ==
    IF "intrinsic" \in DOMAIN callee THEN
        IF callee.type.returnType = voidType
        THEN Ok([type |-> Undefined, kind |-> "Print", n |-> nargs])
        ELSE IF Len(callee.type.paramTypes) = 1
        THEN Ok([type |-> callee.type.returnType, kind |-> "UnaryExpression", n |-> nargs])
        ELSE Ok([type |-> callee.type.returnType, kind |-> "BinaryExpression", n |-> nargs])
    ELSE Ok([type |-> callee.type.returnType, kind |-> "FunctionCall", n |-> nargs])

\* The check of one argument against the parameter type at its position
\* (FunCall_funCallArgs, the body of args.forEach)
ArgCheck(arg, expected) ==
    IF expected = numType
    THEN (IF arg.type = numType THEN NoError ELSE ExpectedNumber)
    ELSE (IF assignable(arg.type, expected) THEN NoError
          ELSE CannotAssign(arg.type, expected))

\* FunCall_funCallArgs after the lookup of the target, over the
\* representations of the arguments (ArgList_argList requires one type)
FunCallArgsRep(name, target, args) ==
    IF ~allHaveSameType(args) THEN Fail(SameType)
    ELSE IF target.kind # "Function" THEN Fail(NotAFunction(name))
    ELSE IF Len(target.type.paramTypes) # Len(args)
    THEN Fail(Arity(Len(target.type.paramTypes), Len(args)))
    ELSE LET checks == [i \in 1..Len(args) |->
                           ArgCheck(args[i], target.type.paramTypes[i])]
             bad == {i \in 1..Len(args) : checks[i] # NoError} IN
         IF bad # {}
         THEN Fail(checks[CHOOSE i \in bad : \A j \in bad : i <= j])
         ELSE functionCall(target, Len(args))

\* FunCall_funCallNoArgs after the lookup of the target
FunCallNoArgsRep(name, target) ==
    IF target.kind # "Function" THEN Fail(NotAFunction(name))
    ELSE IF Len(target.type.paramTypes) # 0
    THEN Fail(Arity(0, Len(target.type.paramTypes)))
    ELSE functionCall(target, 0)

\* core.subscript: startsWith is not a method of a function type object
subscript(array) ==
    IF Head(typeOf(array)) = "FunctionType" THEN Fail(TypeError)
    ELSE Ok([type |-> getListElementType(typeOf(array)),
             kind |-> "SubscriptExpression", n |-> 0])

\* IndexedAccess_index after the lookup of the variable
IndexRep(array, index) ==
    IF index.type # numType THEN Fail(ExpectedNumber) ELSE subscript(array)

\* rep() of an expression in the context chain
RECURSIVE ExpRep(_, _)
ExpRep(chain, e) ==
    IF e.k = "lit" THEN LiteralRep(e.t)
    ELSE IF e.k = "ref" THEN IdRep(chain, e.n)
    ELSE LET rs == [i \in 1..Len(e.es) |-> ExpRep(chain, e.es[i])]
             f == FirstFail(rs) IN
         IF e.k = "list" THEN
             IF f # 0 THEN rs[f] ELSE ListRep(rs)
         ELSE IF e.k = "bin" THEN
             IF f # 0 THEN rs[f] ELSE BinaryRep(e.op, rs[1], rs[2])
         ELSE IF e.k = "index" THEN
             LET array == lookup(chain, e.n) IN
             IF array = NotFound THEN Fail(NotDeclared(e.n))
             ELSE IF f # 0 THEN rs[f]
             ELSE IndexRep(array, rs[1])
         ELSE \* "call": the target is looked up before the arguments
             LET target == lookup(chain, e.n) IN
             IF target = NotFound THEN Fail(NotDeclared(e.n))
             ELSE IF f # 0 THEN rs[f]
             ELSE IF Len(e.es) = 0 THEN FunCallNoArgsRep(e.n, target)
             ELSE FunCallArgsRep(e.n, target, rs)

\* ------------------------------------------------------------------ the IR
\* An IR statement node, kept as its kind, the name it declares or calls,
\* and its blocks in the order the analyzer built them.  A block is kept as
\* the kinds of its statement nodes and the number of statements written in
\* the source block.
Node(kind, name, blocks) == [kind |-> kind, name |-> name, blocks |-> blocks]

Block(role, body, src) == [role |-> role, body |-> body, src |-> src]

\* An open block: the statements written in it (n), the IR nodes of the
\* statements analysed so far (ir), the statement it belongs to (node) and
\* whether its handler replaced `context` by a child (scoped).
Frame(role, n, node, scoped) ==
    [role |-> role, n |-> n, ir |-> <<>>, node |-> node, scoped |-> scoped]

kinds(ir) == [i \in 1..Len(ir) |-> ir[i].kind]

\* Block_block: of n statements, the number whose rep() is taken
\* (stmtsOpt.children[0] only)
BlockVisits(n) == IF n = 0 THEN 0 ELSE 1

\* Program_program: statementList.children.map takes every statement
ProgramVisits(n) == n

top == stack[Len(stack)]

context == ctx[Len(ctx)]

\* --------------------------------------------------- the handlers' checks
\* A mustNotAlreadyBeDeclared that never throws
neverDeclared(chain, name) == TRUE

\* mustNotAlreadyBeDeclared: context.locals.has(name) throws
notAlreadyDeclared(chain, name) == ~has(chain[Len(chain)].locals, name)

\* Context.add on `context`
add(chain, name, entity) ==
    IF has(chain[Len(chain)].locals, name) THEN Fail(AlreadyDeclared(name))
    ELSE Ok([chain |-> [chain EXCEPT ![Len(chain)].locals = set(@, name, entity)]])

isMutable(e) == e.kind = "Variable" /\ e.mutable

NoInit == [k |-> "none"]

\* VarDecl_varDecl
VarDeclRep(chain, name, syntax, init) ==
    IF ~notAlreadyDeclared(chain, name) THEN Fail(AlreadyDeclared(name))
    ELSE LET varType == TypeRep(syntax) IN
    IF ~varType.ok THEN varType
    ELSE LET v == variable(name, TRUE, varType.type) IN
    IF init.k = "none" THEN add(chain, name, v)
    ELSE LET initializer == ExpRep(chain, init) IN
    IF ~initializer.ok THEN initializer
    ELSE LET t == IF initializer.kind = "ListLiteral" /\ initializer.n = 0
                  THEN v.type ELSE initializer.type IN
    IF ~assignable(t, v.type) THEN Fail(CannotAssign(t, v.type))
    ELSE add(chain, name, v)

\* An lhs that is looked up in the context, as PrimaryExp_primaryId does
boundEntity(chain, name) == lookup(chain, name)

\* getRep(lhs) of an assignment to a bare identifier: id has no action, so
\* _nonterminal descends to the first child down to the terminal and the
\* result is a JavaScript string, not the entity the name is bound to.
LhsRep(chain, name) == StringEntity(name)

\* Assignment_assignValid
AssignmentRep(chain, name, e) ==
    LET leftVal == LhsRep(chain, name)
        source == ExpRep(chain, e) IN
    IF ~source.ok THEN source
    ELSE IF ~isMutable(leftVal) THEN Fail(Immutable)
    ELSE IF ~assignable(source.type, typeOf(leftVal))
    THEN Fail(CannotAssign(source.type, typeOf(leftVal)))
    ELSE Ok([chain |-> chain])

\* mustBeInLoop, for BreakStmt_breakStmt and ContinueStmt_continueStmt
LoopControlRep(chain, statement) ==
    IF chain[Len(chain)].inLoop THEN Ok([chain |-> chain])
    ELSE Fail(OutsideLoop(statement))

\* context.currentFunction.returnType
expectedReturnType(f) ==
    IF "returnType" \in DOMAIN f THEN f.returnType ELSE Undefined

NoExp == [k |-> "none"]

\* ReturnStmt_returnStmt; without an expression, expr is the empty array and
\* its type is Array.prototype.type
ReturnRep(chain, e) ==
    LET expr == IF e.k = "none" THEN Ok([type |-> listType(anyType), kind |-> "Array", n |-> 0])
                ELSE ExpRep(chain, e)
        f == chain[Len(chain)].currentFunction IN
    IF ~expr.ok THEN expr
    ELSE IF f = NoFunction THEN Fail(OutsideFunction)
    ELSE IF expectedReturnType(f) = voidType THEN Fail(CannotAssign(expr.type, voidType))
    ELSE IF ~assignable(expr.type, expectedReturnType(f))
    THEN Fail(CannotAssign(expr.type, expectedReturnType(f)))
    ELSE Ok([chain |-> chain])

\* SayStmt_sayStmt: the rep of the ExpList
SayRep(chain, es) ==
    LET rs == [i \in 1..Len(es) |-> ExpRep(chain, es[i])]
        f == FirstFail(rs) IN
    IF f # 0 THEN rs[f]
    ELSE IF ~allHaveSameType(rs) THEN Fail(SameType)
    ELSE Ok([chain |-> chain])

\* FunCallStatement_funCallStmt
CallStmtRep(chain, name, es) ==
    LET r == ExpRep(chain, Call(name, es)) IN
    IF ~r.ok THEN r ELSE Ok([chain |-> chain, kind |-> r.kind])

\* ------------------------------------------------- the compound statements
Param(name, syntax) == [name |-> name, syntax |-> syntax]

\* Param_param, in the function's child context
ParamRep(chain, p) ==
    LET t == TypeRep(p.syntax) IN
    IF ~t.ok THEN t
    ELSE IF ~notAlreadyDeclared(chain, p.name) THEN Fail(AlreadyDeclared(p.name))
    ELSE Ok([param |-> variable(p.name, FALSE, t.type)])

\* Params_params: [] without parameters; otherwise getRep of the optional
\* node, which _iter maps to an array holding the ParamList's array
ParamsRep(chain, params) ==
    LET rs == [i \in 1..Len(params) |-> ParamRep(chain, params[i])]
        f == FirstFail(rs) IN
    IF f # 0 THEN rs[f]
    ELSE IF Len(params) = 0 THEN Ok([list |-> <<>>])
    ELSE Ok([list |-> <<ArrayEntity([i \in 1..Len(params) |-> rs[i].param])>>])

\* param.name of an element of paramList
nameOf(param) == IF "name" \in DOMAIN param THEN param.name ELSE UndefinedKey

NoType == <<>>

\* FunDecl_funDecl up to the analysis of the body
FunDeclRep(chain, name, params, ret) ==
    IF ~notAlreadyDeclared(chain, name) THEN Fail(AlreadyDeclared(name))
    ELSE
    LET child == Append(chain, newChildContext(FALSE))
        paramList == ParamsRep(child, params) IN
    IF ~paramList.ok THEN ThrownIn(paramList, child)
    ELSE
    LET list == paramList.list IN
    IF \E i, j \in 1..Len(list) : i < j /\ nameOf(list[i]) = nameOf(list[j])
    THEN Fail(AlreadyDeclared(UndefinedKey))
    ELSE
    LET returnType == IF ret = NoType THEN Ok([type |-> voidType]) ELSE TypeRep(ret) IN
    IF ~returnType.ok THEN ThrownIn(returnType, child)
    ELSE
    LET f == fun(name, list, <<>>,
                 functionType([i \in 1..Len(list) |-> typeOf(list[i])], returnType.type),
                 returnType.type)
        withFun == [child EXCEPT ![Len(child)].locals = set(@, name, f),
                                 ![Len(chain)].locals = set(@, name, f)]
        withParams == IF Len(list) = 0 THEN withFun
                      ELSE [withFun EXCEPT ![Len(child)].locals =
                                set(@, nameOf(list[1]), list[1])] IN
    Ok([chain |-> [withParams EXCEPT ![Len(child)].currentFunction = f]])

\* LoopStmt_loopWhile up to the analysis of the body
LoopWhileRep(chain, test) ==
    LET t == ExpRep(chain, test) IN
    IF ~t.ok THEN t
    ELSE IF t.type # boolType THEN Fail(ExpectedBoolean)
    ELSE Ok([chain |-> Append(chain, newChildContext(TRUE))])

\* LoopStmt_loopForEach up to the analysis of the body; startsWith is not a
\* method of a function type object, nor of undefined
LoopForEachRep(chain, iterName, exp) ==
    LET collection == ExpRep(chain, exp) IN
    IF ~collection.ok THEN collection
    ELSE IF Head(collection.type) = "FunctionType" \/ collection.type = Undefined
    THEN Fail(TypeError)
    ELSE
    LET baseType == IF startsWithList(collection.type)
                    THEN slice5(collection.type) ELSE anyType
        added == add(chain, iterName, variable(iterName, TRUE, baseType)) IN
    IF ~added.ok THEN added
    ELSE Ok([chain |-> Append(added.chain, newChildContext(TRUE))])

\* IfStmt_ifStmt up to the analysis of the first block
IfRep(chain, test) ==
    LET t == ExpRep(chain, test) IN
    IF ~t.ok THEN t
    ELSE IF t.type # boolType THEN Fail(ExpectedBoolean)
    ELSE Ok([chain |-> chain])

\* OrWhenClause_orWhenClause up to the analysis of its block
OrWhenRep(chain, condition) ==
    LET t == ExpRep(chain, condition) IN
    IF ~t.ok THEN t ELSE Ok([chain |-> chain])

\* TryStmt_tryStmt up to the analysis of the Catch block, which comes first
TryRep(chain, errorVar) ==
    IF ~notAlreadyDeclared(chain, errorVar) THEN Fail(AlreadyDeclared(errorVar))
    ELSE add(Append(chain, newChildContext(FALSE)), errorVar,
             variable(errorVar, FALSE, textType))

\* -------------------------------------------------------------- the inputs
\* The programs analysed are those whose statements are drawn from these
\* sets.
Names == {"x", "y"}

FunNames == {"f"}

TypeSyntaxes ==
    {<<"num">>, <<"bool">>, <<"any">>, <<"list", "num">>, <<"list", "any">>}

Atoms == {Lit(numType), Lit(boolType), Ref("x"), Ref("y")}

InitExps ==
    Atoms \cup {ListExp(<<>>), ListExp(<<Lit(numType)>>),
                ListExp(<<Lit(numType), Lit(boolType)>>)}

Tests == {Lit(boolType), Lit(numType), Ref("x"),
          Bin("smaller", Ref("x"), Lit(numType))}

AssignExps == {Lit(numType), Lit(boolType), Ref("y"),
               Bin("plus", Ref("x"), Lit(numType))}

Callees == {"f", "x", "sqrt", "hypot", "print"}

MaxArgs == 2

ArgAtoms == {Lit(numType), Lit(boolType), ListExp(<<>>)}

ArgLists == UNION {[1..k -> ArgAtoms] : k \in 0..MaxArgs}

ParamLists ==
    {<<>>, <<Param("a", <<"num">>)>>,
     <<Param("a", <<"num">>), Param("b", <<"bool">>)>>}

ReturnTypes == {NoType, <<"num">>}

ReturnExps == {NoExp, Lit(numType), Ref("x"), ListExp(<<>>)}

SayArgs == {<<>>, <<Lit(numType)>>, <<Ref("x")>>, <<Ref("y")>>}

Collections == {ListExp(<<Lit(numType)>>), Lit(numType), Ref("x"), Ref("f")}

\* ============================================================ the optimizer
\* The values the optimizer works on.  A JavaScript number is an exact
\* fraction num/den in lowest terms, with den = 0 for Infinity (num = 1),
\* -Infinity (num = -1) and NaN (num = 0); the sign of a zero is not kept.
sign(n) == IF n > 0 THEN 1 ELSE IF n < 0 THEN -1 ELSE 0

abs(n) == IF n < 0 THEN -n ELSE n

RECURSIVE gcd(_, _)
gcd(a, b) == IF b = 0 THEN a ELSE gcd(b, a % b)

ratio(p, q) ==
    IF q = 0 THEN [num |-> sign(p), den |-> 0]
    ELSE LET g == gcd(abs(p), abs(q)) IN
         [num |-> sign(q) * (p \div g), den |-> abs(q) \div g]

Number(n) == [num |-> n, den |-> 1]

NaN == [num |-> 0, den |-> 0]

Infinity == [num |-> 1, den |-> 0]

Boolean(b) == [bool |-> b]

True == Boolean(TRUE)

False == Boolean(FALSE)

null == [null |-> TRUE]

Array(items) == [items |-> items]

\* A TypeError leaves optimize
Thrown == Fail(TypeError)

isNumber(v) == "num" \in DOMAIN v

isArray(v) == "items" \in DOMAIN v

isNaN(a) == a = NaN

negated(a) == [num |-> -a.num, den |-> a.den]

\* L + R
plus(a, b) ==
    IF isNaN(a) \/ isNaN(b) THEN NaN
    ELSE IF a.den = 0 THEN (IF b.den = 0 /\ b.num # a.num THEN NaN ELSE a)
    ELSE IF b.den = 0 THEN b
    ELSE ratio(a.num * b.den + b.num * a.den, a.den * b.den)

\* An addition where the subtraction is meant
sum(a, b) == plus(a, b)

\* L - R
minus(a, b) == plus(a, negated(b))

\* L * R
times(a, b) == ratio(a.num * b.num, a.den * b.den)

inverse(a) == ratio(a.den, a.num)

\* L / R
over(a, b) == times(a, inverse(b))

RECURSIVE raised(_, _)
raised(n, k) == IF k = 0 THEN 1 ELSE n * raised(n, k - 1)

\* L ** R for an integer R
power(a, b) ==
    CASE b.den = 1 ->
        IF b.num = 0 THEN Number(1)
        ELSE IF isNaN(a) THEN NaN
        ELSE LET n == abs(b.num)
                 p == ratio(raised(a.num, n), raised(a.den, n)) IN
             IF b.num > 0 THEN p ELSE inverse(p)

\* L < R
less(a, b) ==
    IF isNaN(a) \/ isNaN(b) THEN FALSE
    ELSE IF a.den = 0 /\ b.den = 0 THEN a.num < b.num
    ELSE IF a.den = 0 THEN a.num < 0
    ELSE IF b.den = 0 THEN b.num > 0
    ELSE a.num * b.den < b.num * a.den

\* L === R
same(a, b) == ~isNaN(a) /\ a = b

\* The switch of BinaryExpression over two numbers; no case for another op
fold(op, L, R) ==
    CASE op = "+" -> plus(L, R)
      [] op = "-" -> minus(L, R)
      [] op = "*" -> times(L, R)
      [] op = "/" -> over(L, R)
      [] op = "**" -> power(L, R)
      [] op = "<" -> Boolean(less(L, R))
      [] op = "<=" -> Boolean(less(L, R) \/ same(L, R))
      [] op = "==" -> Boolean(same(L, R))
      [] op = "!=" -> Boolean(~same(L, R))
      [] op = ">=" -> Boolean(less(R, L) \/ same(L, R))
      [] op = ">" -> Boolean(less(R, L))
      [] OTHER -> null

foldOps == {"+", "-", "*", "/", "**", "<", "<=", "==", "!=", ">=", ">"}

\* core.js constructors of the nodes
program(statements) == [kind |-> "Program", statements |-> statements]

ifStatement(test, consequent, alternate) ==
    [kind |-> "IfStatement", test |-> test, consequent |-> consequent,
     alternate |-> alternate]

shortIfStatement(test, consequent) ==
    [kind |-> "ShortIfStatement", test |-> test, consequent |-> consequent]

whileStatement(test, body) == [kind |-> "WhileStatement", test |-> test, body |-> body]

breakStatement == [kind |-> "BreakStatement"]

continueStatement == [kind |-> "ContinueStatement"]

returnStatement(expression) == [kind |-> "ReturnStatement", expression |-> expression]

binary(op, left, right, type) ==
    [kind |-> "BinaryExpression", op |-> op, left |-> left, right |-> right,
     type |-> type]

unary(op, operand, type) ==
    [kind |-> "UnaryExpression", op |-> op, operand |-> operand, type |-> type]

\* v.type, through the prototypes core.js patches
typeProperty(v) ==
    IF "type" \in DOMAIN v THEN v.type
    ELSE IF isNumber(v) THEN numType
    ELSE IF "bool" \in DOMAIN v THEN boolType
    ELSE IF isArray(v) THEN listType(anyType)
    ELSE Undefined

\* A test that no number passes
neverNumber(n) == FALSE

isZero(n) == n = Number(0)

isOne(n) == n = Number(1)

thrown(v) == "err" \in DOMAIN v

RECURSIVE optimize(_)

\* items.flatMap(optimize): an array result is spliced, one level deep
RECURSIVE flatMapItems(_)
flatMapItems(items) ==
    IF items = <<>> THEN Array(<<>>)
    ELSE LET first == optimize(Head(items)) IN
         IF thrown(first) THEN first
         ELSE LET rest == flatMapItems(Tail(items)) IN
              IF thrown(rest) THEN rest
              ELSE Array((IF isArray(first) THEN first.items ELSE <<first>>)
                            \o rest.items)

\* v.flatMap(optimize); only an array has flatMap
flatMap(v) == IF isArray(v) THEN flatMapItems(v.items) ELSE Thrown

\* s.alternate?.kind?.endsWith("IfStatement")
endsWithIfStatement(v) ==
    "kind" \in DOMAIN v /\ v.kind \in {"IfStatement", "ShortIfStatement"}

Program(p) ==
    LET statements == flatMap(p.statements) IN
    IF thrown(statements) THEN statements
    ELSE [p EXCEPT !.statements = statements]

IfStatement(s) ==
    LET test == optimize(s.test) IN
    IF thrown(test) THEN test
    ELSE LET consequent == flatMap(s.consequent) IN
    IF thrown(consequent) THEN consequent
    ELSE LET alternate == IF endsWithIfStatement(s.alternate)
                          THEN optimize(s.alternate)
                          ELSE flatMap(s.alternate) IN
    IF thrown(alternate) THEN alternate
    ELSE IF test = True THEN consequent
    ELSE IF test = False THEN alternate
    ELSE [s EXCEPT !.test = test, !.consequent = consequent, !.alternate = alternate]

ShortIfStatement(s) ==
    LET test == optimize(s.test) IN
    IF thrown(test) THEN test
    ELSE LET consequent == flatMap(s.consequent) IN
    IF thrown(consequent) THEN consequent
    ELSE IF test = True THEN consequent
    ELSE IF test = False THEN Array(<<>>)
    ELSE [s EXCEPT !.test = test, !.consequent = consequent]

WhileStatement(s) ==
    LET test == optimize(s.test) IN
    IF thrown(test) THEN test
    ELSE IF test = False THEN Array(<<>>)
    ELSE LET body == flatMap(s.body) IN
    IF thrown(body) THEN body
    ELSE [s EXCEPT !.test = test, !.body = body]

\* The strength reductions of BinaryExpression, after the shortcuts and the
\* fold did not return
reduced(e, left, right) ==
    LET op == e.op
        unchanged == [e EXCEPT !.left = left, !.right = right] IN
    IF isNumber(left) /\ isZero(left) /\ op = "+" THEN right
    ELSE IF isNumber(left) /\ isOne(left) /\ op = "*" THEN right
    ELSE IF isNumber(left) /\ isZero(left) /\ op = "-"
    THEN unary("-", right, typeProperty(right))
    ELSE IF isNumber(left) /\ isZero(left) /\ op \in {"*", "/"} THEN Number(0)
    ELSE IF ~isNumber(right) THEN unchanged
    ELSE IF op = "+" /\ isZero(right) THEN left
    ELSE IF op \in {"*", "/"} /\ isOne(right) THEN left
    ELSE IF op = "*" /\ isZero(right) THEN Number(0)
    ELSE IF op = "**" /\ isZero(right) THEN Number(1)
    ELSE unchanged

BinaryExpression(e) ==
    LET left == optimize(e.left) IN
    IF thrown(left) THEN left
    ELSE LET right == optimize(e.right) IN
    IF thrown(right) THEN right
    ELSE IF e.op = "??" /\ "kind" \in DOMAIN left /\ left.kind = "EmptyOptional"
    THEN right
    ELSE IF e.op = "||" /\ left = False THEN right
    ELSE IF e.op = "||" /\ right = False THEN left
    ELSE IF e.op = "&&" /\ left = True THEN right
    ELSE IF e.op = "&&" /\ right = True THEN left
    ELSE IF isNumber(left) /\ isNumber(right) /\ e.op \in foldOps
    THEN fold(e.op, left, right)
    ELSE reduced(e, left, right)

UnaryExpression(e) ==
    LET operand == optimize(e.operand) IN
    IF thrown(operand) THEN operand
    ELSE IF e.op = "-" /\ isNumber(operand) THEN negated(operand)
    ELSE [e EXCEPT !.operand = operand]

\* optimizers[node.kind]?.(node) ?? node; null has no properties to read
ReturnStatement(s) ==
    LET expression == optimize(s.expression) IN
    IF thrown(expression) THEN expression
    ELSE [s EXCEPT !.expression = expression]

optimize(node) ==
    IF node = null THEN Thrown
    ELSE IF "kind" \notin DOMAIN node THEN node
    ELSE CASE node.kind = "Program" -> Program(node)
           [] node.kind = "IfStatement" -> IfStatement(node)
           [] node.kind = "ShortIfStatement" -> ShortIfStatement(node)
           [] node.kind = "WhileStatement" -> WhileStatement(node)
           [] node.kind = "BinaryExpression" -> BinaryExpression(node)
           [] node.kind = "ReturnStatement" -> ReturnStatement(node)
           [] node.kind = "UnaryExpression" -> UnaryExpression(node)
           [] OTHER -> node

\* ------------------------------------------------ the trees that are optimized
MaxLit == 3

MaxPasses == 2

\* Number literals, -1 among them
Literals == {Number(n) : n \in -1..MaxLit}

xVar == variable("x", TRUE, numType)

Leaves == Literals \cup {True, False, xVar}

logicalOps == {"||", "&&"}

typeOfOp(op) == IF op \in {"+", "-", "*", "/", "**"} THEN numType ELSE boolType

\* Operands that are expressions themselves
InnerExps ==
    {binary("+", xVar, Number(0), numType), binary("-", Number(0), xVar, numType),
     binary("+", Number(1), Number(2), numType), binary("/", Number(1), Number(2), numType),
     binary("/", Number(1), Number(0), numType), binary("<", Number(1), Number(2), boolType),
     binary("||", xVar, False, boolType), unary("-", xVar, numType),
     unary("-", Number(2), numType)}

Operands == Leaves \cup InnerExps

\* An exponent is a leaf
Expressions ==
    Leaves
    \cup {binary(op, l, r, typeOfOp(op)) :
             op \in foldOps \cup logicalOps, l \in Leaves, r \in Leaves}
    \cup {binary(op, o[1], o[2], typeOfOp(op)) :
             op \in (foldOps \cup logicalOps) \ {"**"},
             o \in (Operands \X Operands) \ (Leaves \X Leaves)}
    \cup {binary("**", l, r, numType) : l \in InnerExps, r \in Leaves}
    \cup {unary("-", e, numType) : e \in Operands}

TestExps == {True, False, xVar, binary("<", Number(1), Number(2), boolType)}

Bodies ==
    {Array(<<>>), Array(<<breakStatement>>),
     Array(<<breakStatement, continueStatement>>)}

\* The alternates of an IfStatement: a statement list; null, which
\* IfStmt_ifStmt gives a When without orElse; and the array holding the
\* block's array, which it gives a When with orElse
Alternates(blocks) == blocks \cup {null} \cup {Array(<<b>>) : b \in blocks}

FlatStatements ==
    {ifStatement(t, c, a) : t \in TestExps, c \in Bodies, a \in Alternates(Bodies)}
    \cup {shortIfStatement(t, c) : t \in TestExps, c \in Bodies}
    \cup {whileStatement(t, c) : t \in TestExps, c \in Bodies}

InnerStatements ==
    {ifStatement(t, Array(<<breakStatement>>), a) :
        t \in {True, False, xVar}, a \in {Array(<<continueStatement>>), null}}
    \cup {shortIfStatement(t, Array(<<breakStatement>>)) : t \in {True, False, xVar}}
    \cup {whileStatement(t, Array(<<breakStatement>>)) : t \in {True, False, xVar}}

NestedBodies ==
    {Array(<<s>>) : s \in InnerStatements}
    \cup {Array(<<breakStatement, s, continueStatement>>) : s \in InnerStatements}

NestedStatements ==
    {ifStatement(t, c, a) :
        t \in {True, False, xVar},
        c \in {Array(<<>>)} \cup NestedBodies,
        a \in Alternates({Array(<<>>)} \cup NestedBodies)
                \cup {s \in InnerStatements : endsWithIfStatement(s)}}
    \cup {whileStatement(t, c) : t \in {True, False, xVar}, c \in NestedBodies}

Programs == {program(b) : b \in Bodies \cup NestedBodies}

\* PrimaryExp_primaryInt: the node of an integer literal
primaryInt(n) == [kind |-> "NumberLiteral", value |-> Number(n), type |-> numType]

\* PrimaryExp_primaryBool: the node of `true` or `false`
primaryBool(b) == [kind |-> "BooleanLiteral", value |-> Boolean(b), type |-> boolType]

\* AdditiveExp_addExp for `left plus right`: the operator is the source token
addExp(left, right) == binary("plus", left, right, left.type)

\* The rep of a loop's block: of its statements the first only
LoopBodies == {Array(<<>>), Array(<<breakStatement>>)}

\* IfStmt_ifStmt for `When b { }` and `When b { } orElse { }`: without
\* orElse the alternate is null, with it the rep of the optional block
when(b, block) ==
    {ifStatement(primaryBool(b), block, alternate) :
        alternate \in {null, Array(<<block>>)}}

anyVar == variable("x", TRUE, anyType)

\* The trees the analyzer builds for literals, for `a plus b`, for
\* `Keep b { ... }`, for a When at top level and in a loop, and for
\* `give x;` and `give;`
Analyzed ==
    {primaryInt(a) : a \in 0..MaxLit} \cup {primaryBool(b) : b \in BOOLEAN}
    \cup {addExp(primaryInt(a), primaryInt(b)) : a, b \in 0..MaxLit}
    \cup {program(Array(<<whileStatement(primaryBool(b), body)>>)) :
             b \in BOOLEAN, body \in LoopBodies}
    \cup {program(Array(<<s>>)) :
             s \in when(TRUE, Array(<<>>)) \cup when(FALSE, Array(<<>>))}
    \cup {program(Array(<<whileStatement(primaryBool(TRUE), Array(<<s>>))>>)) :
             s \in when(TRUE, Array(<<breakStatement>>))
                      \cup when(FALSE, Array(<<breakStatement>>))}
    \cup {returnStatement(anyVar), returnStatement(Array(<<>>))}

Trees ==
    Expressions \cup FlatStatements \cup NestedStatements \cup Programs \cup Analyzed

\* No tree is being optimized
NoTree == [kind |-> "none"]

\* ------------------------------------------------------------- the actions
Init ==
    /\ ctx = <<root>>
    /\ stack = <<Frame("Program", 0, Node("Program", "", <<>>), FALSE)>>
    /\ status = "running"
    /\ err = NoError
    /\ count = 0
    /\ last = ""
    /\ tree = NoTree
    /\ out = <<>>

\* A statement can be analysed here: at the top level every statement is,
\* in a block only as many as Block_block takes.
CanVisit ==
    /\ status = "running"
    /\ count < MaxStmts
    /\ Len(stack) > 1 => Len(top.ir) < BlockVisits(top.n)

\* The numbers of statements a block of the programs has
BlockSizes == 0..MaxBlock

\* The block about to be analysed has n statements
CanEnter(n) ==
    /\ Len(stack) - 1 < MaxDepth
    /\ n \in BlockSizes
    /\ n > 0 => count + 1 < MaxStmts

\* The handler throws: the error leaves analyze, the handlers in progress
\* are unwound with the IR they had built, and `context` stays as it was
Throw(op, r) ==
    /\ status' = "error"
    /\ err' = r.err
    /\ ctx' = IF "chain" \in DOMAIN r THEN r.chain ELSE ctx
    /\ stack' = <<>>
    /\ last' = op
    /\ UNCHANGED <<count, tree, out>>

\* The handler returns the node of a statement without blocks
Emit(op, r, node) ==
    /\ ctx' = r.chain
    /\ stack' = [stack EXCEPT ![Len(stack)].ir = Append(@, node)]
    /\ count' = count + 1
    /\ last' = op
    /\ UNCHANGED <<status, err, tree, out>>

\* The handler goes on to analyse a block of the statement
Enter(op, r, frame) ==
    /\ ctx' = r.chain
    /\ stack' = Append(stack, frame)
    /\ count' = count + 1
    /\ last' = op
    /\ UNCHANGED <<status, err, tree, out>>

Simple(op, r, node) == IF r.ok THEN Emit(op, r, node) ELSE Throw(op, r)

Compound(op, r, frame) == IF r.ok THEN Enter(op, r, frame) ELSE Throw(op, r)

VarDecl(name, syntax, init) ==
    /\ CanVisit
    /\ Simple("VarDecl", VarDeclRep(ctx, name, syntax, init),
              Node("VariableDeclaration", name, <<>>))

Assignment(name, e) ==
    /\ CanVisit
    /\ Simple("Assignment", AssignmentRep(ctx, name, e), Node("Assignment", name, <<>>))

FunCallStatement(name, es) ==
    /\ CanVisit
    /\ LET r == CallStmtRep(ctx, name, es) IN
       Simple("FunCall", r, Node(IF r.ok THEN r.kind ELSE "", name, <<>>))

ReturnStmt(e) ==
    /\ CanVisit
    /\ Simple("Return", ReturnRep(ctx, e), Node("ReturnStatement", "", <<>>))

BreakStmt ==
    /\ CanVisit
    /\ Simple("Break", LoopControlRep(ctx, "Break"), Node("BreakStatement", "", <<>>))

ContinueStmt ==
    /\ CanVisit
    /\ Simple("Skip", LoopControlRep(ctx, "Skip"), Node("ContinueStatement", "", <<>>))

SayStmt(es) ==
    /\ CanVisit
    /\ Simple("Say", SayRep(ctx, es), Node("SayStatement", "", <<>>))

FunDecl(name, params, ret, n) ==
    /\ CanVisit
    /\ CanEnter(n)
    /\ Compound("FunDecl", FunDeclRep(ctx, name, params, ret),
                Frame("FunBody", n, Node("FunctionDeclaration", name, <<>>), TRUE))

LoopWhile(test, n) ==
    /\ CanVisit
    /\ CanEnter(n)
    /\ Compound("LoopWhile", LoopWhileRep(ctx, test),
                Frame("WhileBody", n, Node("WhileStatement", "", <<>>), TRUE))

LoopForEach(iterName, exp, n) ==
    /\ CanVisit
    /\ CanEnter(n)
    /\ Compound("LoopForEach", LoopForEachRep(ctx, iterName, exp),
                Frame("ForBody", n, Node("ForStatement", iterName, <<>>), TRUE))

IfStmt(test, n) ==
    /\ CanVisit
    /\ CanEnter(n)
    /\ Compound("If", IfRep(ctx, test),
                Frame("Consequent", n, Node("IfStatement", "", <<>>), FALSE))

TryStmt(errorVar, n) ==
    /\ CanVisit
    /\ CanEnter(n)
    /\ Compound("Try", TryRep(ctx, errorVar),
                Frame("Catch", n, Node("TryStatement", errorVar, <<>>), TRUE))

\* Block_block has returned for the open block
BlockDone ==
    /\ status = "running"
    /\ Len(stack) > 1
    /\ Len(top.ir) = BlockVisits(top.n)

\* The statement the block belongs to, with the block just analysed
closed == [top.node EXCEPT !.blocks = Append(@, Block(top.role, kinds(top.ir), top.n))]

\* `context = saved` after a block analysed in a child context
restored == IF top.scoped THEN SubSeq(ctx, 1, Len(ctx) - 1) ELSE ctx

\* The last block of a statement is done: its handler returns the node
EndStmt ==
    /\ BlockDone
    /\ top.role # "Catch"
    /\ ctx' = restored
    /\ stack' = [SubSeq(stack, 1, Len(stack) - 1)
                    EXCEPT ![Len(stack) - 1].ir = Append(@, closed)]
    /\ last' = "EndStmt"
    /\ UNCHANGED <<status, err, count, tree, out>>

\* The next block of the same statement is analysed
NextBlock(op, r, role, n) ==
    /\ n \in BlockSizes
    /\ n > 0 => count < MaxStmts
    /\ IF r.ok
       THEN /\ ctx' = r.chain
            /\ stack' = [stack EXCEPT ![Len(stack)] = Frame(role, n, closed, FALSE)]
            /\ UNCHANGED <<status, err>>
       ELSE /\ status' = "error"
            /\ err' = r.err
            /\ stack' = <<>>
            /\ UNCHANGED ctx
    /\ last' = op
    /\ UNCHANGED <<count, tree, out>>

\* IfStmt_ifStmt: getRep(orWhenClauses) after the consequent
OrWhenClause(condition, n) ==
    /\ BlockDone
    /\ top.role \in {"Consequent", "OrWhen"}
    /\ Len(top.node.blocks) < MaxClauses
    /\ NextBlock("OrWhen", OrWhenRep(ctx, condition), "OrWhen", n)

\* IfStmt_ifStmt: getRep(orElseBlock)
OrElseBlock(n) ==
    /\ BlockDone
    /\ top.role \in {"Consequent", "OrWhen"}
    /\ NextBlock("OrElse", Ok([chain |-> ctx]), "OrElse", n)

\* TryStmt_tryStmt: `context = saved`, then getRep(block1)
TryBlock(n) ==
    /\ BlockDone
    /\ top.role = "Catch"
    /\ NextBlock("TryBlock", Ok([chain |-> restored]), "Try", n)

\* Program_program returns and analyze with it
Finish ==
    /\ status = "running"
    /\ Len(stack) = 1
    /\ status' = "done"
    /\ last' = "Program"
    /\ UNCHANGED <<ctx, stack, err, count, tree, out>>

\* An analyze call that keeps the context the call before it ended in
leftover(chain) == chain

\* analyze: `context = Context.root()` replaces the context the call before
\* left in the module's variable
started(chain) == <<root>>

\* How the call before ended
ended ==
    IF status = "done" THEN "after a successful call"
    ELSE IF Len(ctx) > 1 THEN "after a call aborted in a nested scope"
    ELSE "after a call aborted at top level"

\* analyze is called again, the call before having returned or thrown
Analyze ==
    /\ status \in {"done", "error"}
    /\ ctx' = started(ctx)
    /\ stack' = <<Frame("Program", 0, Node("Program", "", <<>>), FALSE)>>
    /\ status' = "running"
    /\ err' = NoError
    /\ count' = 0
    /\ last' = ended
    /\ UNCHANGED <<tree, out>>

Next ==
    \/ \E name \in Names, syntax \in TypeSyntaxes, init \in InitExps \cup {NoInit} :
          VarDecl(name, syntax, init)
    \/ \E name \in Names, e \in AssignExps : Assignment(name, e)
    \/ \E name \in Callees, es \in ArgLists : FunCallStatement(name, es)
    \/ \E e \in ReturnExps : ReturnStmt(e)
    \/ BreakStmt
    \/ ContinueStmt
    \/ \E es \in SayArgs : SayStmt(es)
    \/ \E name \in FunNames, params \in ParamLists, ret \in ReturnTypes, n \in BlockSizes :
          FunDecl(name, params, ret, n)
    \/ \E test \in Tests, n \in BlockSizes : LoopWhile(test, n)
    \/ \E name \in Names, exp \in Collections, n \in BlockSizes :
          LoopForEach(name, exp, n)
    \/ \E test \in Tests, n \in BlockSizes : IfStmt(test, n)
    \/ \E name \in Names, n \in BlockSizes : TryStmt(name, n)
    \/ EndStmt
    \/ \E condition \in Tests, n \in BlockSizes : OrWhenClause(condition, n)
    \/ \E n \in BlockSizes : OrElseBlock(n)
    \/ \E n \in BlockSizes : TryBlock(n)
    \/ Finish
    \/ Analyze

Spec == Init /\ [][Next]_vars

\* ---------------------------------------------------- optimizing a tree
OptInit ==
    /\ ctx = <<root>>
    /\ stack = <<>>
    /\ status = "done"
    /\ err = NoError
    /\ count = 0
    /\ last = "Program"
    /\ tree \in Trees
    /\ out = <<>>

\* The value optimize is applied to next
current == IF out = <<>> THEN tree ELSE out[Len(out)]

\* optimize(T)
OptimizeTree ==
    /\ tree # NoTree
    /\ out = <<>>
    /\ out' = <<optimize(tree)>>
    /\ UNCHANGED <<ctx, stack, status, err, count, last, tree>>

\* optimize applied to what optimize returned
OptimizeAgain ==
    /\ out # <<>>
    /\ Len(out) < MaxPasses
    /\ ~thrown(current)
    /\ out' = Append(out, optimize(current))
    /\ UNCHANGED <<ctx, stack, status, err, count, last, tree>>

OptNext == OptimizeTree \/ OptimizeAgain

OptSpec == OptInit /\ [][OptNext]_vars

\* ------------------------------------------------------------- scope chain
\* The names the programs declare
DeclNames == Names \cup FunNames

\* A scope open at this point declares the name: a block in progress whose
\* analysed statements include its declaration, or whose statement binds it
\* for that block (a function its own name, a loop its variable, a Catch
\* clause its error variable).  A loop's variable is counted for the scope
\* around the loop as well, where Context.add puts it.
DeclaredInOpenScope(name) ==
    \E i \in 1..Len(stack) :
        \/ \E k \in 1..Len(stack[i].ir) :
              /\ stack[i].ir[k].kind \in
                    {"VariableDeclaration", "FunctionDeclaration", "ForStatement"}
              /\ stack[i].ir[k].name = name
        \/ /\ stack[i].role \in {"FunBody", "ForBody", "Catch"}
           /\ stack[i].node.name = name

\* C1: an identifier reference is accepted only if the name was declared
\* earlier in the current scope or in an enclosing one; a name declared only
\* inside a block that has ended (a function body, loop body, When, orWhen or
\* orElse block, Try or Catch block) is not declared any more.
C1_ScopeSoundness ==
    status = "running" =>
        \A name \in DeclNames : IdRep(ctx, name).ok => DeclaredInOpenScope(name)

DeclaredTypes == {syntax \in TypeSyntaxes : TypeRep(syntax).ok}

C4_BlockKeepsEveryStatement ==
    status = "running" =>
        \A i \in 1..Len(stack) :
            /\ \A b \in 1..Len(stack[i].node.blocks) :
                  Len(stack[i].node.blocks[b].body) = stack[i].node.blocks[b].src
            /\ \A k \in 1..Len(stack[i].ir) :
                  \A b \in 1..Len(stack[i].ir[k].blocks) :
                      Len(stack[i].ir[k].blocks[b].body) = stack[i].ir[k].blocks[b].src

C6_InLoopBody ==
    /\ status = "running"
    /\ ctx = <<[root EXCEPT !.locals = set(@, "x", variable("x", TRUE, numType))],
               newChildContext(TRUE)>>
    /\ stack = <<[Frame("Program", 0, Node("Program", "", <<>>), FALSE)
                    EXCEPT !.ir = <<Node("VariableDeclaration", "x", <<>>)>>],
                 Frame("WhileBody", 1, Node("WhileStatement", "", <<>>), TRUE)>>

\* C6: the program `Make x: num = 0; Keep x smaller 10 { x = x plus 1; }`
\* analyses without error: after the declaration and the loop header, the
\* assignment x = x plus 1 is accepted and is the one node of the loop body.
C6_CounterLoopAnalyses ==
    [][(C6_InLoopBody /\ Assignment("x", Bin("plus", Ref("x"), Lit(numType))))
          => /\ status' = "running"
             /\ stack'[2].ir = <<Node("Assignment", "x", <<>>)>>]_vars

\* ------------------------------------------------------------------- calls
\* The types of the parameters a function was declared with
declaredParamTypes(f) ==
    IF "intrinsic" \in DOMAIN f THEN f.type.paramTypes
    ELSE IF f.params = <<>> THEN <<>>
    ELSE [i \in 1..Len(f.params[1].elements) |-> f.params[1].elements[i].type]

\* The functions a call can name here
Callable == {name \in Callees : lookup(ctx, name).kind = "Function"}

\* C7: a call f(a1, ..., an) of a function declared with m parameters, user
\* declared or intrinsic, fails with "Expected m arguments but got n" whenever
\* n differs from m, n = 0 included.
C7_ArityError ==
    status = "running" =>
        \A name \in Callable, es \in ArgLists :
            LET m == Len(declaredParamTypes(lookup(ctx, name))) IN
            ((\A i \in 1..Len(es) : ExpRep(ctx, es[i]).ok) /\ Len(es) # m) =>
                CallStmtRep(ctx, name, es) = Fail(Arity(m, Len(es)))

\* An argument fits a parameter: a num parameter takes a num, any other
\* parameter an equal type, or any on either side
fits(argType, paramType) ==
    IF paramType = numType THEN argType = numType ELSE assignable(argType, paramType)

\* C8: a call with as many arguments as the function has parameters is
\* accepted exactly when each argument, taken on its own, fits the parameter
\* at its position.
C8_ArgumentsFitOneByOne ==
    status = "running" =>
        \A name \in Callable, es \in ArgLists :
            LET ps == declaredParamTypes(lookup(ctx, name))
                rs == [i \in 1..Len(es) |-> ExpRep(ctx, es[i])] IN
            ((\A i \in 1..Len(es) : rs[i].ok) /\ Len(es) = Len(ps)) =>
                (CallStmtRep(ctx, name, es).ok
                    <=> \A i \in 1..Len(es) : fits(rs[i].type, ps[i]))

\* ------------------------------------------------------------ control flow
LoopRoles == {"WhileBody", "ForBody"}

InFunction == \E i \in 1..Len(stack) : stack[i].role = "FunBody"

\* C10: a give is rejected with "Return used outside of a function" if and
\* only if no function declaration encloses it; inside a loop body, a
\* conditional block or a Try or Catch block of a function body it counts as
\* inside the function.
C10_GiveOutsideFunctionIff ==
    (status = "running" /\ CanVisit) =>
        \A e \in ReturnExps :
            (e = NoExp \/ ExpRep(ctx, e).ok) =>
                (ReturnRep(ctx, e) = Fail(OutsideFunction) <=> ~InFunction)

\* --------------------------------------------------------- function bodies
\* C11: in the body of a function declared with a return type R other than
\* void, `give e;` is accepted exactly when the type of e is R or one of the
\* two is any, and is otherwise rejected with "Cannot assign <type of e> to R".
C11_GiveMatchesReturnType ==
    (status = "running" /\ CanVisit /\ context.currentFunction # NoFunction
        /\ context.currentFunction.type.returnType # voidType) =>
        \A e \in ReturnExps \ {NoExp} :
            LET expr == ExpRep(ctx, e)
                R == context.currentFunction.type.returnType IN
            expr.ok =>
                ReturnRep(ctx, e) =
                    IF expr.type = R \/ expr.type = anyType \/ R = anyType
                    THEN Ok([chain |-> ctx])
                    ELSE Fail(CannotAssign(expr.type, R))

\* C12: in the body of a function declared without a return type, a bare
\* `give;` is accepted and every `give e;` with an expression is rejected.
C12_BareGiveInVoidFunction ==
    (status = "running" /\ CanVisit /\ context.currentFunction # NoFunction
        /\ context.currentFunction.type.returnType = voidType) =>
        /\ ReturnRep(ctx, NoExp).ok
        /\ \A e \in ReturnExps \ {NoExp} : ~ReturnRep(ctx, e).ok

\* C13: when the body of a function is entered, every parameter is bound in
\* the body scope under its own name with its declared type, and the
\* paramTypes of the function's type list the declared types in order.
C13_ParametersBoundInBody ==
    (status = "running" /\ last = "FunDecl") =>
        LET f == context.currentFunction
            declared == declaredParamTypes(f) IN
        /\ f.type.paramTypes = declared
        /\ \A i \in 1..Len(declared) :
              LET p == f.params[1].elements[i] IN
              IdRep(ctx, p.name) = Ok([type |-> p.type, kind |-> "Variable", n |-> 0])

\* ------------------------------------------------------------ Keep-in loops
\* C18: `Keep <id> in <Exp> { }` with a fresh loop variable is accepted when
\* the iterated expression has a list type and is rejected when it has not,
\* as in `Keep x in 123 { }`.
C18_KeepInRequiresList ==
    (status = "running" /\ CanVisit) =>
        \A iterName \in Names, exp \in Collections :
            LET collection == ExpRep(ctx, exp) IN
            (collection.ok /\ notAlreadyDeclared(ctx, iterName)) =>
                (LoopForEachRep(ctx, iterName, exp).ok <=> isListType(collection.type))

\* ----------------------------------------------------------- the built-ins
\* C19: in whichever scope, a variable or function declaration that reuses
\* the name of a built-in fails with "Identifier <name> already declared",
\* and the name keeps resolving to its entry of the registry.
C19_BuiltInsNeverRedeclared ==
    (status = "running" /\ CanVisit) =>
        \A name \in DOMAIN root.locals :
            /\ lookup(ctx, name) = root.locals[name]
            /\ VarDeclRep(ctx, name, <<"num">>, NoInit) = Fail(AlreadyDeclared(name))
            /\ FunDeclRep(ctx, name, <<>>, NoType) = Fail(AlreadyDeclared(name))

\* C20: an orWhen clause whose test analyses to a type other than bool is
\* rejected with "Expected a boolean", as the primary test of a When is.
C20_OrWhenTestIsBoolean ==
    (status = "running" /\ BlockDone /\ top.role \in {"Consequent", "OrWhen"}) =>
        \A condition \in Tests :
            LET t == ExpRep(ctx, condition) IN
            (t.ok /\ t.type # boolType) =>
                /\ IfRep(ctx, condition) = Fail(ExpectedBoolean)
                /\ OrWhenRep(ctx, condition) = Fail(ExpectedBoolean)

\* ------------------------------------------------------------ the optimizer
\* C14: optimize is idempotent: for every tree T on which optimize returns,
\* optimize(optimize(T)) returns a tree equal to optimize(T).
C14_OptimizeIdempotent ==
    Len(out) = MaxPasses => out[MaxPasses] = out[1]

\* The tree is a binary expression over two number literals
TwoLiterals ==
    /\ "kind" \in DOMAIN tree
    /\ tree.kind = "BinaryExpression"
    /\ tree.left \in Literals
    /\ tree.right \in Literals

\* n / m as a fraction in lowest terms, Infinity, -Infinity or NaN
IsQuotient(v, n, m) ==
    /\ isNumber(v)
    /\ IF m = 0 THEN v = [num |-> sign(n), den |-> 0]
       ELSE /\ v.den > 0
            /\ v.num * m = n * v.den
            /\ \A d \in 2..v.den : ~(v.num % d = 0 /\ v.den % d = 0)

\* n ** m for integers n and m
IsPower(v, n, m) ==
    IF m >= 0 THEN v = Number(IF m = 0 THEN 1 ELSE n ^ m)
    ELSE IsQuotient(v, 1, n ^ (-m))

\* C15: a BinaryExpression whose operands are both number literals and whose
\* operator is one of + - * / ** < <= == != >= > optimizes to the literal
\* value of the operator applied to them.
C15_FoldsNumericLiterals ==
    (out # <<>> /\ TwoLiterals /\ tree.op \in foldOps) =>
        LET n == tree.left.num
            m == tree.right.num
            v == out[1] IN
        CASE tree.op = "+" -> v = Number(n + m)
          [] tree.op = "-" -> v = Number(n - m)
          [] tree.op = "*" -> v = Number(n * m)
          [] tree.op = "/" -> IsQuotient(v, n, m)
          [] tree.op = "**" -> IsPower(v, n, m)
          [] tree.op = "<" -> v = Boolean(n < m)
          [] tree.op = "<=" -> v = Boolean(n <= m)
          [] tree.op = "==" -> v = Boolean(n = m)
          [] tree.op = "!=" -> v = Boolean(n # m)
          [] tree.op = ">=" -> v = Boolean(n >= m)
          [] tree.op = ">" -> v = Boolean(n > m)

\* 3 - 2 was folded to 1
C15_Witness ==
    /\ tree = binary("-", Number(3), Number(2), numType)
    /\ out = <<Number(1)>>

\* The tree is a binary expression with operator op
IsBinary(op) ==
    /\ "kind" \in DOMAIN tree
    /\ tree.kind = "BinaryExpression"
    /\ tree.op = op

\* A unary negation node whose operand is x
IsNegationOf(v, x) ==
    /\ "kind" \in DOMAIN v
    /\ v.kind = "UnaryExpression"
    /\ v.op = "-"
    /\ v.operand = x

\* The identities that give back the other operand, optimized, and x ** 0
OperandIdentities ==
    LET l == optimize(tree.left)
        r == optimize(tree.right)
        v == out[1] IN
    /\ (IsBinary("+") /\ tree.right = Number(0)) => v = l
    /\ (IsBinary("+") /\ tree.left = Number(0)) => v = r
    /\ (IsBinary("*") /\ tree.right = Number(1)) => v = l
    /\ (IsBinary("*") /\ tree.left = Number(1)) => v = r
    /\ (IsBinary("**") /\ tree.right = Number(0)) => v = Number(1)
    /\ (IsBinary("||") /\ tree.left = False) => v = r
    /\ (IsBinary("||") /\ tree.right = False) => v = l
    /\ (IsBinary("&&") /\ tree.left = True) => v = r
    /\ (IsBinary("&&") /\ tree.right = True) => v = l

\* x * 0 and 0 * x give the literal 0
ZeroProduct ==
    (IsBinary("*") /\ Number(0) \in {tree.left, tree.right}) => out[1] = Number(0)

\* 0 - x gives the negation node of the optimized x
ZeroMinus ==
    (IsBinary("-") /\ tree.left = Number(0)) =>
        IsNegationOf(out[1], optimize(tree.right))

\* C16 as stated: for every operand x, constant or not, x + 0, 0 + x, x * 1
\* and 1 * x optimize to the optimized x, x * 0 and 0 * x to the literal 0,
\* 0 - x to a unary negation node whose operand is x, x ** 0 to the literal
\* 1, and false || x, x || false, true && x, x && true to x.
C16_IdentitiesForEveryOperand ==
    (out # <<>> /\ ~thrown(out[1])) =>
        OperandIdentities /\ ZeroProduct /\ ZeroMinus

\* C16: the identities hold as stated for every operand x that does not
\* optimize to a number.  When x optimizes to a number the fold comes first:
\* x + 0, 0 + x, x * 1, 1 * x still give x and x ** 0 gives 1, but 0 - x
\* gives the negated number and not a negation node, and x * 0 and 0 * x
\* give 0 for a finite x only.
C16_IdentitiesUnlessFolded ==
    (out # <<>> /\ ~thrown(out[1]) /\ "kind" \in DOMAIN tree
        /\ tree.kind = "BinaryExpression") =>
        LET l == optimize(tree.left)
            r == optimize(tree.right) IN
        /\ OperandIdentities
        /\ (~isNumber(l) \/ ~isNumber(r)) => (ZeroProduct /\ ZeroMinus)
        /\ (isNumber(l) /\ isNumber(r)) =>
              /\ (l.den # 0 /\ r.den # 0) => ZeroProduct
              /\ (IsBinary("-") /\ tree.left = Number(0)) => out[1] = negated(r)

\* 0 - x became the negation of the variable x
C16_Witness ==
    /\ tree = binary("-", Number(0), xVar, numType)
    /\ out = <<unary("-", xVar, numType)>>

\* The tree is a node of this kind whose test is this constant
HasConstantTest(kind, test) ==
    /\ "kind" \in DOMAIN tree
    /\ tree.kind = kind
    /\ tree.test = test

\* The tree is a Program of the one statement s
IsProgramOf(s) == tree = program(Array(<<s>>))

\* C17: an If whose test is the constant true optimizes to its optimized
\* consequent sequence and one whose test is the constant false to its
\* optimized alternate (the empty sequence without an alternate); a While
\* whose test is the constant false optimizes to the empty sequence; and the
\* statement list around such a node holds the returned sequence in its place.
C17_DeadBranchElimination ==
    out # <<>> =>
        /\ HasConstantTest("IfStatement", True) => out[1] = flatMap(tree.consequent)
        /\ HasConstantTest("IfStatement", False) =>
              out[1] = IF tree.alternate = null THEN Array(<<>>)
                       ELSE IF endsWithIfStatement(tree.alternate)
                       THEN optimize(tree.alternate)
                       ELSE flatMap(tree.alternate)
        /\ HasConstantTest("ShortIfStatement", True) => out[1] = flatMap(tree.consequent)
        /\ HasConstantTest("ShortIfStatement", False) => out[1] = Array(<<>>)
        /\ HasConstantTest("WhileStatement", False) => out[1] = Array(<<>>)
        /\ \A s \in InnerStatements :
              (IsProgramOf(s) /\ s.test = (IF endsWithIfStatement(s) THEN True ELSE False)) =>
                  /\ ~thrown(out[1])
                  /\ isArray(optimize(s))
                  /\ out[1].statements = optimize(s)

\* ------------------------------------------------- loops, functions, scopes
\* The statement analysed next lies in the body of a loop, with no function
\* body opened inside that loop
InLoopLexically ==
    \E i \in 1..Len(stack) :
        /\ stack[i].role \in LoopRoles
        /\ \A j \in i + 1..Len(stack) : stack[j].role # "FunBody"

\* C21: a Break or Skip is accepted if and only if it lies lexically inside a
\* loop body with no function declaration between it and the loop; the
\* When, orWhen, orElse, Try and Catch blocks inside the loop body keep it
\* legal, a function body inside the loop does not.
C21_BreakSkipLexicallyInLoop ==
    (status = "running" /\ CanVisit) =>
        \A statement \in {"Break", "Skip"} :
            LoopControlRep(ctx, statement).ok <=> InLoopLexically

\* A Keep-in loop has just been analysed to its end: the node it returned
LoopJustEnded ==
    /\ status = "running"
    /\ last = "EndStmt"
    /\ top.ir[Len(top.ir)].kind = "ForStatement"

\* C22: in `Keep x in E { body }` over a list E, x has the element type of E
\* inside the body; after the loop x is no longer declared in the enclosing
\* scope, so that a reference to x at top level fails as undeclared and a
\* second `Keep x in ...` is accepted.
C22_LoopVariableScopedToBody ==
    /\ (status = "running" /\ CanVisit) =>
          \A iterName \in Names, exp \in Collections :
              LET collection == ExpRep(ctx, exp)
                  loop == LoopForEachRep(ctx, iterName, exp) IN
              (collection.ok /\ isListType(collection.type) /\ loop.ok) =>
                  IdRep(loop.chain, iterName).type = getListElementType(collection.type)
    /\ LoopJustEnded =>
          LET x == top.ir[Len(top.ir)].name IN
          /\ notAlreadyDeclared(ctx, x)
          /\ Len(stack) = 1 => IdRep(ctx, x) = Fail(NotDeclared(x))
          /\ LoopForEachRep(ctx, x, ListExp(<<Lit(numType)>>)).ok

\* The scope that encloses the function body just entered
enclosing == SubSeq(ctx, 1, Len(ctx) - 1)

\* C23: when the body of a function is entered, its name resolves to the
\* function in the body scope and in the enclosing scope (direct recursion),
\* and a call of a function g that the enclosing scope declares after it
\* does not fail as undeclared (indirect recursion).
C23_RecursionAccepted ==
    (status = "running" /\ last = "FunDecl") =>
        LET f == context.currentFunction IN
        /\ has(context.locals, f.name) /\ context.locals[f.name] = f
        /\ lookup(enclosing, f.name) = f
        /\ FunDeclRep(enclosing, "g", <<>>, NoType).ok =>
              CallStmtRep(ctx, "g", <<>>) # Fail(NotDeclared("g"))

\* C24: the statements are analysed in source order and the first violation
\* met is the one raised: in `Try { A } Catch e { B }` the block A has been
\* analysed when the analysis of B starts.
C24_TryBlockBeforeCatchBlock ==
    (Len(stack) > 1 /\ top.role = "Catch") =>
        \E i \in 1..Len(top.node.blocks) : top.node.blocks[i].role = "Try"

\* ---------------------------------------------------------- indexed access
\* The identifiers that are indexed
Indexed == Names \cup Callees \cup {"pi", "true"}

\* C25: `id[e]` for a declared id fails with "Expected a number" unless e
\* has type num; otherwise it has the element type of id's type when that is
\* a list type, and type any, without an error, when id is anything else: a
\* variable of another type, a function or intrinsic, a built-in constant.
C25_IndexedAccess ==
    (status = "running" /\ CanVisit) =>
        \A name \in Indexed, e \in Atoms :
            LET array == lookup(ctx, name)
                index == ExpRep(ctx, e)
                r == ExpRep(ctx, Index(name, e)) IN
            (array # NotFound /\ index.ok) =>
                IF index.type # numType THEN r = Fail(ExpectedNumber)
                ELSE /\ r.ok
                     /\ r.type = IF array.kind # "Function" /\ isListType(array.type)
                                 THEN slice5(array.type) ELSE anyType


\* ------------------------------------------- the optimizer on analyzer IR
\* C26: the rewrite rules apply to the IR the analyzer produces: optimized,
\* `a plus b` of two literals is the literal of the sum, and a Keep loop or a
\* When whose test is the literal false is no longer a statement of the
\* program.
C26_RulesApplyToAnalyzerIR ==
    out # <<>> =>
        /\ \A a, b \in 0..MaxLit :
               tree = addExp(primaryInt(a), primaryInt(b)) =>
                   out[1] \in {Number(a + b), primaryInt(a + b)}
        /\ \A body \in LoopBodies :
               tree = program(Array(<<whileStatement(primaryBool(FALSE), body)>>)) =>
                   out[1] = program(Array(<<>>))
        /\ LET s == ifStatement(primaryBool(FALSE), Array(<<>>), Array(<<Array(<<>>)>>)) IN
           tree = program(Array(<<s>>)) =>
               /\ ~thrown(out[1])
               /\ \A i \in 1..Len(out[1].statements.items) :
                      out[1].statements.items[i] # s

\* C27: optimize raises nothing on a tree a successful analysis produces, a
\* When without orElse and a give without expression included, and returns
\* a node no rule applies to as it was.
C27_OptimizeNeverRaises ==
    (tree \in Analyzed /\ out # <<>>) =>
        /\ ~thrown(out[1])
        /\ tree.kind \in {"NumberLiteral", "BooleanLiteral", "ReturnStatement"} =>
               out[1] = tree

\* ------------------------------------------------------ analyze, called again
\* C28: every call of analyze starts from a fresh root scope holding exactly
\* the built-ins, whether the call before returned, threw at top level or
\* threw in a nested scope: it starts in the state the first call started in,
\* so that it analyses a program as the first call does; and the entries of
\* the built-ins in the root scope are never changed.
C28_FreshRootOnEveryCall ==
    /\ \A name \in DOMAIN root.locals :
           has(ctx[1].locals, name) /\ ctx[1].locals[name] = root.locals[name]
    /\ last \in {"after a successful call", "after a call aborted in a nested scope",
                 "after a call aborted at top level"} =>
           /\ ctx = <<root>>
           /\ stack = <<Frame("Program", 0, Node("Program", "", <<>>), FALSE)>>
           /\ status = "running" /\ err = NoError /\ count = 0
           /\ \A name \in Names, syntax \in TypeSyntaxes, init \in InitExps \cup {NoInit} :
                  VarDeclRep(ctx, name, syntax, init) = VarDeclRep(<<root>>, name, syntax, init)
           /\ \A name \in Callees, es \in ArgLists :
                  CallStmtRep(ctx, name, es) = CallStmtRep(<<root>>, name, es)

\* A call of analyze after a call that was aborted in a nested scope
C28_Witness ==
    /\ last = "after a call aborted in a nested scope"
    /\ status = "running"
    /\ Len(ctx) = 1

\* ------------------------------------------------- the types of expressions
\* num, text, bool, void, any, and the list types built from them
RECURSIVE isGitzType(_)
isGitzType(type) ==
    \/ type \in {numType, textType, boolType, voidType, anyType}
    \/ Head(type) = "list" /\ Len(type) > 1 /\ isGitzType(Tail(type))

\* Expressions of every kind: literals, references, binary expressions,
\* calls, subscripts and list literals
Initializers ==
    InitExps \cup AssignExps \cup Tests
    \cup {Ref(name) : name \in Callees \cup {"pi", "true"}}
    \cup {Call(name, es) : name \in Callees, es \in ArgLists}
    \cup {Index(name, e) : name \in Names, e \in Atoms}

\* C29: the node of every expression of an accepted program carries one of
\* the types num, text, bool, void, any or a list type built from them; here
\* for the initializer of an accepted `Make name: any = e;`.
C29_ExpressionsCarryAType ==
    (status = "running" /\ CanVisit) =>
        \A name \in Names, e \in Initializers :
            VarDeclRep(ctx, name, anyType, e).ok => isGitzType(ExpRep(ctx, e).type)

\* ------------------------------------------------------------- shadowing
\* The scope the open block is nested in: the parent of `context` when the
\* handler of the block made a child context, `context` itself when it did
\* not
outer == IF top.scoped THEN enclosing ELSE ctx

\* C30: at the start of every nested block - function body, loop body,
\* When, orWhen or orElse block, Try or Catch block - a name declared in an
\* enclosing scope can be declared again; references in the block then
\* resolve to the inner declaration, and after the block to the outer one.
C30_ShadowingInNestedScopes ==
    (status = "running" /\ Len(stack) > 1 /\ CanVisit /\ Len(top.ir) = 0) =>
        \A name \in Names \ {top.node.name} :
            lookup(outer, name) # NotFound =>
                LET r == VarDeclRep(ctx, name, listType(numType), NoInit) IN
                /\ r.ok
                /\ IdRep(r.chain, name).type = listType(numType)
                /\ lookup(SubSeq(r.chain, 1, Len(r.chain) - 1), name) = lookup(outer, name)

====
